---- MODULE Spec2Model ----
(***************************************************************************)
(* Drizzle-Dome: the clothesline controller of drizzle_dome_main.ino.      *)
(* One TLA+ step is one pass of loop(): sample the rain sensor, run the    *)
(* handler of the current state, update the status LED, delay(100).        *)
(* The initial state is the state at the end of setup().                   *)
(*                                                                         *)
(* millis() is an input.  The sketch calls it at up to four places in one  *)
(* pass (the rain timestamp, the handler's elapsed-time check, the         *)
(* motorStartTime assignment, the LED blink), with Serial output at 9600   *)
(* baud in between, so every call gets its own reading; the readings of    *)
(* one pass are non-decreasing and at most MaxBodyTime apart, and          *)
(* delay(100) puts at least LoopDelay between two passes.                  *)
(***************************************************************************)
EXTENDS Integers, Sequences, FiniteSets, TLC

VARIABLES
    \* --- the sketch's globals -------------------------------------------
    retractionDelay,    \* unsigned long, ms of dry weather before extending
    motorRunTime,       \* unsigned long, ms of one full traversal
    lastRainTime,       \* unsigned long, millis() of the last rainy sample
    motorStartTime,     \* unsigned long, millis() when the motors started
    isRetracted,        \* bool
    motorsRunning,      \* bool
    currentState,       \* SystemState
    \* --- the outputs ------------------------------------------------------
    digitalOut,         \* level written to each digital output pin
    analogOut,          \* duty written to each PWM pin
    \* --- the clock --------------------------------------------------------
    clock,              \* ms since the model's start at which delay(100) returned
    epoch,              \* millis() at the model's start
    \* --- the last pass of loop(), as observed ----------------------------
    rainDetected,       \* the pass's rain sample (loop's local variable)
    prevState,          \* currentState when the pass began
    prevMotorStartTime, \* motorStartTime when the pass began
    sampleTime,         \* the first millis() reading of the pass
    checkTime,          \* the millis() reading of the handler's time check
    ledTime,            \* the millis() reading of updateStatusLED
    motorCalls,         \* the motor functions the pass called, in order
    stateWrites,        \* how many times the pass assigned currentState
    \* --- history ----------------------------------------------------------
    lastTrueSample,     \* sampleTime of the latest pass that sampled rain, -1 if none
    lastTrueState,      \* prevState of that pass
    phaseFrom,          \* prevState of the pass that last started the motors
    phaseSample,        \* sampleTime of that pass
    phaseEntry,         \* the millis() reading that pass stored in motorStartTime
    \* --- the reference run ------------------------------------------------
    unbounded           \* the memory of the same sketch, given the same samples
                        \* and the readings of a clock that started at 0

globals == <<retractionDelay, motorRunTime, lastRainTime, motorStartTime,
             isRetracted, motorsRunning, currentState>>
outputs == <<digitalOut, analogOut>>
observed == <<rainDetected, prevState, prevMotorStartTime, sampleTime, checkTime,
              ledTime, motorCalls, stateWrites>>
history == <<lastTrueSample, lastTrueState, phaseFrom, phaseSample, phaseEntry>>
vars == <<globals, outputs, clock, epoch, observed, history, unbounded>>

----------------------------------------------------------------------------
\* Pin definitions
motor1A == 7
motor1B == 6
motor1Enable == 9
motor2A == 5
motor2B == 4
motor2Enable == 10
rainSensorPin == 2
statusLED == 13

LOW == 0
HIGH == 1

DirectionPins == {motor1A, motor1B, motor2A, motor2B}
DigitalPins == DirectionPins \cup {statusLED}
PwmPins == {motor1Enable, motor2Enable}

\* enum SystemState
EXTENDED == "EXTENDED"
RETRACTING == "RETRACTING"
RETRACTED == "RETRACTED"
EXTENDING == "EXTENDING"
SystemState == {EXTENDED, RETRACTING, RETRACTED, EXTENDING}

\* Initial values of the timing globals, the PWM duty, the loop's delay
RetractionDelayMs == 10000
MotorRunTimeMs == 5000
MotorSpeed == 150
LoopDelay == 100
BlinkHalfPeriod == 200

----------------------------------------------------------------------------
\* The bounds of the model
MaxTime == 17501        \* the run is followed for this many ms
MaxBodyTime == 2        \* ms the clock may advance inside one pass of loop()
ClockBits == 16         \* width of the modelled millis() counter

ClockModulus == 2 ^ ClockBits

\* The instants at which the clock is read: just before, at and just after
\* every multiple of half a motor run, so that each threshold is met exactly,
\* missed by one and passed by one, and one loop delay after those, so that
\* two passes can follow each other at the sketch's own cadence.
Quantum == MotorRunTimeMs \div 2
Offsets == {-1, 0, 1, LoopDelay}
Instants ==
    {t \in {q * Quantum + o : q \in 0..(MaxTime \div Quantum + 1), o \in Offsets} :
        0 <= t /\ t <= MaxTime}
\* How late after delay(100) returned the next pass may read the clock
MaxLatency == 2 * Quantum

----------------------------------------------------------------------------
\* millis() at t ms after the model's start: an unsigned counter that wraps
millis(t) == (epoch + t) % ClockModulus

\* a - b on unsigned long
Elapsed(a, b) == (a - b) % ClockModulus

\* The program's memory as one record, which the functions below transform
Memory ==
    [retractionDelay |-> retractionDelay, motorRunTime |-> motorRunTime,
     lastRainTime |-> lastRainTime, motorStartTime |-> motorStartTime,
     isRetracted |-> isRetracted, motorsRunning |-> motorsRunning,
     currentState |-> currentState, digitalOut |-> digitalOut,
     analogOut |-> analogOut, motorCalls |-> <<>>, stateWrites |-> 0]

digitalWrite(m, p, v) == [m EXCEPT !.digitalOut[p] = v]
analogWrite(m, p, v) == [m EXCEPT !.analogOut[p] = v]
setState(m, s) == [m EXCEPT !.currentState = s, !.stateWrites = @ + 1]

\* startRetractionMotors raising both duties to full speed
startRetractionMotors_FullSpeed(m) ==
    LET a == digitalWrite(m, motor1A, HIGH)
        b == digitalWrite(a, motor1B, LOW)
        c == digitalWrite(b, motor2A, HIGH)
        d == digitalWrite(c, motor2B, LOW)
        e == analogWrite(d, motor1Enable, 255)
        f == analogWrite(e, motor2Enable, 255)
    IN  [f EXCEPT !.motorsRunning = TRUE, !.motorCalls = Append(@, "retract")]

startRetractionMotors(m) ==
    LET a == digitalWrite(m, motor1A, HIGH)
        b == digitalWrite(a, motor1B, LOW)
        c == digitalWrite(b, motor2A, HIGH)
        d == digitalWrite(c, motor2B, LOW)
    IN  [d EXCEPT !.motorsRunning = TRUE, !.motorCalls = Append(@, "retract")]

\* startExtensionMotors driving motor 2 with motor 1's retract polarity
startExtensionMotors_Unmirrored(m) ==
    LET a == digitalWrite(m, motor1A, LOW)
        b == digitalWrite(a, motor1B, HIGH)
        c == digitalWrite(b, motor2A, HIGH)
        d == digitalWrite(c, motor2B, LOW)
    IN  [d EXCEPT !.motorsRunning = TRUE, !.motorCalls = Append(@, "extend")]

startExtensionMotors(m) ==
    LET a == digitalWrite(m, motor1A, LOW)
        b == digitalWrite(a, motor1B, HIGH)
        c == digitalWrite(b, motor2A, LOW)
        d == digitalWrite(c, motor2B, HIGH)
    IN  [d EXCEPT !.motorsRunning = TRUE, !.motorCalls = Append(@, "extend")]

stopMotors(m) ==
    LET a == digitalWrite(m, motor1A, LOW)
        b == digitalWrite(a, motor1B, LOW)
        c == digitalWrite(b, motor2A, LOW)
        d == digitalWrite(c, motor2B, LOW)
    IN  [d EXCEPT !.motorsRunning = FALSE, !.motorCalls = Append(@, "stop")]

\* handleExtendedState testing the rain flag with the wrong sense
handleExtendedState_Inverted(m, rain, tStart) ==
    IF ~rain
    THEN LET a == startRetractionMotors(m)
             b == setState(a, RETRACTING)
         IN  [b EXCEPT !.motorStartTime = tStart, !.isRetracted = FALSE]
    ELSE m

\* EXTENDED: waiting for rain.  tStart is millis() at the assignment.
handleExtendedState(m, rain, tStart) ==
    IF rain
    THEN LET a == startRetractionMotors(m)
             b == setState(a, RETRACTING)
         IN  [b EXCEPT !.motorStartTime = tStart, !.isRetracted = FALSE]
    ELSE m

\* handleRetractingState stamping motorStartTime when it stops the motors
handleRetractingState_StampStop(m, rain, tCheck) ==
    IF Elapsed(tCheck, m.motorStartTime) >= m.motorRunTime
    THEN LET a == stopMotors(m)
             b == setState(a, RETRACTED)
         IN  [b EXCEPT !.isRetracted = TRUE, !.motorStartTime = tCheck]
    ELSE m

\* handleRetractingState restarting the motors when it rains before completion
handleRetractingState_Restart(m, rain, tCheck) ==
    IF Elapsed(tCheck, m.motorStartTime) >= m.motorRunTime
    THEN LET a == stopMotors(m)
             b == setState(a, RETRACTED)
         IN  [b EXCEPT !.isRetracted = TRUE]
    ELSE IF rain THEN startRetractionMotors(m) ELSE m

\* handleRetractingState with > for >= in the completion check
handleRetractingState_Strict(m, rain, tCheck) ==
    IF Elapsed(tCheck, m.motorStartTime) > m.motorRunTime
    THEN LET a == stopMotors(m)
             b == setState(a, RETRACTED)
         IN  [b EXCEPT !.isRetracted = TRUE]
    ELSE m

\* handleRetractingState without the call of stopMotors
handleRetractingState_NoStop(m, rain, tCheck) ==
    IF Elapsed(tCheck, m.motorStartTime) >= m.motorRunTime
    THEN LET b == setState(m, RETRACTED)
         IN  [b EXCEPT !.isRetracted = TRUE]
    ELSE m

\* handleRetractingState finishing the retraction only on a dry sample
handleRetractingState_WhenDry(m, rain, tCheck) ==
    IF ~rain /\ Elapsed(tCheck, m.motorStartTime) >= m.motorRunTime
    THEN LET a == stopMotors(m)
             b == setState(a, RETRACTED)
         IN  [b EXCEPT !.isRetracted = TRUE]
    ELSE m

\* RETRACTING: tCheck is millis() in the completion check.
handleRetractingState(m, rain, tCheck) ==
    IF Elapsed(tCheck, m.motorStartTime) >= m.motorRunTime
    THEN LET a == stopMotors(m)
             b == setState(a, RETRACTED)
         IN  [b EXCEPT !.isRetracted = TRUE]
    ELSE m

\* handleRetractedState extending on the first dry sample
handleRetractedState_NoDelay(m, rain, tCheck, tStart) ==
    IF ~rain
    THEN LET a == startExtensionMotors(m)
             b == setState(a, EXTENDING)
         IN  [b EXCEPT !.motorStartTime = tStart]
    ELSE m

\* handleRetractedState comparing the clock with a computed deadline
handleRetractedState_Deadline(m, rain, tCheck, tStart) ==
    IF ~rain /\ tCheck >= (m.lastRainTime + m.retractionDelay) % ClockModulus
    THEN LET a == startExtensionMotors(m)
             b == setState(a, EXTENDING)
         IN  [b EXCEPT !.motorStartTime = tStart]
    ELSE m

\* handleRetractedState measuring the dry period from motorStartTime
handleRetractedState_FromMotorStart(m, rain, tCheck, tStart) ==
    IF ~rain /\ Elapsed(tCheck, m.motorStartTime) >= m.retractionDelay
    THEN LET a == startExtensionMotors(m)
             b == setState(a, EXTENDING)
         IN  [b EXCEPT !.motorStartTime = tStart]
    ELSE m

\* handleRetractedState with > for >= in the dry-period check
handleRetractedState_Strict(m, rain, tCheck, tStart) ==
    IF ~rain /\ Elapsed(tCheck, m.lastRainTime) > m.retractionDelay
    THEN LET a == startExtensionMotors(m)
             b == setState(a, EXTENDING)
         IN  [b EXCEPT !.motorStartTime = tStart]
    ELSE m

\* RETRACTED: waiting for the rain to stop.
handleRetractedState(m, rain, tCheck, tStart) ==
    IF ~rain /\ Elapsed(tCheck, m.lastRainTime) >= m.retractionDelay
    THEN LET a == startExtensionMotors(m)
             b == setState(a, EXTENDING)
         IN  [b EXCEPT !.motorStartTime = tStart]
    ELSE m

\* handleExtendingState with > for >= in the completion check
handleExtendingState_Strict(m, rain, tCheck, tStart) ==
    IF rain
    THEN LET a == startRetractionMotors(m)
             b == setState(a, RETRACTING)
         IN  [b EXCEPT !.motorStartTime = tStart]
    ELSE IF Elapsed(tCheck, m.motorStartTime) > m.motorRunTime
         THEN LET a == stopMotors(m)
                  b == setState(a, EXTENDED)
              IN  [b EXCEPT !.isRetracted = FALSE]
         ELSE m

\* handleExtendingState whose emergency branch leaves motorStartTime alone
handleExtendingState_KeepStart(m, rain, tCheck, tStart) ==
    IF rain
    THEN LET a == startRetractionMotors(m)
         IN  setState(a, RETRACTING)
    ELSE IF Elapsed(tCheck, m.motorStartTime) >= m.motorRunTime
         THEN LET a == stopMotors(m)
                  b == setState(a, EXTENDED)
              IN  [b EXCEPT !.isRetracted = FALSE]
         ELSE m

\* handleExtendingState with the completion check ahead of the rain check
handleExtendingState_TimerFirst(m, rain, tCheck, tStart) ==
    IF Elapsed(tCheck, m.motorStartTime) >= m.motorRunTime
    THEN LET a == stopMotors(m)
             b == setState(a, EXTENDED)
         IN  [b EXCEPT !.isRetracted = FALSE]
    ELSE IF rain
         THEN LET a == startRetractionMotors(m)
                  b == setState(a, RETRACTING)
              IN  [b EXCEPT !.motorStartTime = tStart]
         ELSE m

\* handleExtendingState clearing isRetracted on the emergency retraction
handleExtendingState_ClearFlag(m, rain, tCheck, tStart) ==
    IF rain
    THEN LET a == startRetractionMotors(m)
             b == setState(a, RETRACTING)
         IN  [b EXCEPT !.motorStartTime = tStart, !.isRetracted = FALSE]
    ELSE IF Elapsed(tCheck, m.motorStartTime) >= m.motorRunTime
         THEN LET a == stopMotors(m)
                  b == setState(a, EXTENDED)
              IN  [b EXCEPT !.isRetracted = FALSE]
         ELSE m

\* EXTENDING: rain pre-empts the completion check.
handleExtendingState(m, rain, tCheck, tStart) ==
    IF rain
    THEN LET a == startRetractionMotors(m)
             b == setState(a, RETRACTING)
         IN  [b EXCEPT !.motorStartTime = tStart]
    ELSE IF Elapsed(tCheck, m.motorStartTime) >= m.motorRunTime
         THEN LET a == stopMotors(m)
                  b == setState(a, EXTENDED)
              IN  [b EXCEPT !.isRetracted = FALSE]
         ELSE m

\* updateStatusLED with the two steady levels swapped
updateStatusLED_Swapped(m, tLed) ==
    CASE m.currentState = EXTENDED -> digitalWrite(m, statusLED, LOW)
      [] m.currentState = RETRACTED -> digitalWrite(m, statusLED, HIGH)
      [] m.currentState \in {RETRACTING, EXTENDING} ->
             digitalWrite(m, statusLED, (tLed \div BlinkHalfPeriod) % 2)

updateStatusLED(m, tLed) ==
    CASE m.currentState = EXTENDED -> digitalWrite(m, statusLED, HIGH)
      [] m.currentState = RETRACTED -> digitalWrite(m, statusLED, LOW)
      [] m.currentState \in {RETRACTING, EXTENDING} ->
             digitalWrite(m, statusLED, (tLed \div BlinkHalfPeriod) % 2)

\* recordRain stamping the dry samples instead of the rainy ones
recordRain_Inverted(m, rain, tRain) ==
    IF ~rain THEN [m EXCEPT !.lastRainTime = tRain] ELSE m

\* if (rainDetected) lastRainTime = millis();
recordRain(m, rain, tRain) ==
    IF rain THEN [m EXCEPT !.lastRainTime = tRain] ELSE m

\* dispatch with the break after the RETRACTING case missing
dispatch_Fallthrough(m, rain, tCheck, tStart) ==
    CASE m.currentState = EXTENDED -> handleExtendedState(m, rain, tStart)
      [] m.currentState = RETRACTING ->
             handleRetractedState(handleRetractingState(m, rain, tCheck),
                                  rain, tCheck, tStart)
      [] m.currentState = RETRACTED -> handleRetractedState(m, rain, tCheck, tStart)
      [] m.currentState = EXTENDING -> handleExtendingState(m, rain, tCheck, tStart)

\* switch (currentState)
dispatch(m, rain, tCheck, tStart) ==
    CASE m.currentState = EXTENDED -> handleExtendedState(m, rain, tStart)
      [] m.currentState = RETRACTING -> handleRetractingState(m, rain, tCheck)
      [] m.currentState = RETRACTED -> handleRetractedState(m, rain, tCheck, tStart)
      [] m.currentState = EXTENDING -> handleExtendingState(m, rain, tCheck, tStart)

\* The body of loop() on memory m: rainStatus is the sensor level, t1..t4
\* the four millis() readings.
loopBody(m, rainStatus, t1, t2, t3, t4) ==
    LET rain == (rainStatus = HIGH)
        a == recordRain(m, rain, t1)
        b == dispatch(a, rain, t2, t3)
    IN  updateStatusLED(b, t4)

----------------------------------------------------------------------------
\* The memory at power-on: the globals' initialisers, every output low
PowerOn ==
    [retractionDelay |-> RetractionDelayMs, motorRunTime |-> MotorRunTimeMs,
     lastRainTime |-> 0, motorStartTime |-> 0,
     isRetracted |-> FALSE, motorsRunning |-> FALSE,
     currentState |-> EXTENDED,
     digitalOut |-> [p \in DigitalPins |-> LOW],
     analogOut |-> [p \in PwmPins |-> 0],
     motorCalls |-> <<>>, stateWrites |-> 0]

setup(m) ==
    LET a == analogWrite(m, motor1Enable, MotorSpeed)
        b == analogWrite(a, motor2Enable, MotorSpeed)
        c == stopMotors(b)
    IN  digitalWrite(c, statusLED, HIGH)

\* The state at the end of setup(), and as long after it as no rain has been
\* sampled (a dry pass in EXTENDED changes nothing), millis() reading e
Boot(e) ==
    LET m == setup(PowerOn)
    IN  /\ retractionDelay = m.retractionDelay
        /\ motorRunTime = m.motorRunTime
        /\ lastRainTime = m.lastRainTime
        /\ motorStartTime = m.motorStartTime
        /\ isRetracted = m.isRetracted
        /\ motorsRunning = m.motorsRunning
        /\ currentState = m.currentState
        /\ digitalOut = m.digitalOut
        /\ analogOut = m.analogOut
        /\ clock = 0
        /\ epoch = e
        /\ rainDetected = FALSE
        /\ prevState = m.currentState
        /\ prevMotorStartTime = m.motorStartTime
        /\ sampleTime = 0
        /\ checkTime = 0
        /\ ledTime = 0
        /\ motorCalls = m.motorCalls
        /\ stateWrites = m.stateWrites
        /\ lastTrueSample = -1
        /\ lastTrueState = m.currentState
        /\ phaseFrom = m.currentState
        /\ phaseSample = 0
        /\ phaseEntry = 0
        /\ unbounded = m

Init == Boot(0)

\* One pass of loop(): its body applied to the memory, the result stored back
\* (m ranges over the one memory the body yields), delay(100), and the record
\* of what the pass did.
loop(rainStatus, u1, u2, u3, u4) ==
    \E m \in {loopBody(Memory, rainStatus, millis(u1), millis(u2), millis(u3),
                       millis(u4))},
       r \in {loopBody([unbounded EXCEPT !.motorCalls = <<>>, !.stateWrites = 0],
                       rainStatus, u1, u2, u3, u4)} :
      LET rain == (rainStatus = HIGH)
          first == IF rain THEN millis(u1) ELSE millis(u2)
          started == m.currentState \in {RETRACTING, EXTENDING}
                     /\ m.stateWrites > 0
      IN  /\ retractionDelay' = m.retractionDelay
          /\ motorRunTime' = m.motorRunTime
          /\ lastRainTime' = m.lastRainTime
          /\ motorStartTime' = m.motorStartTime
          /\ isRetracted' = m.isRetracted
          /\ motorsRunning' = m.motorsRunning
          /\ currentState' = m.currentState
          /\ digitalOut' = m.digitalOut
          /\ analogOut' = m.analogOut
          /\ clock' = u4 + LoopDelay
          /\ epoch' = epoch
          /\ rainDetected' = rain
          /\ prevState' = currentState
          /\ prevMotorStartTime' = motorStartTime
          /\ sampleTime' = first
          /\ checkTime' = millis(u2)
          /\ ledTime' = millis(u4)
          /\ motorCalls' = m.motorCalls
          /\ stateWrites' = m.stateWrites
          /\ lastTrueSample' = IF rain THEN first ELSE lastTrueSample
          /\ lastTrueState' = IF rain THEN currentState ELSE lastTrueState
          /\ phaseFrom' = IF started THEN currentState ELSE phaseFrom
          /\ phaseSample' = IF started THEN first ELSE phaseSample
          /\ phaseEntry' = IF started THEN millis(u3) ELSE phaseEntry
          /\ unbounded' = r

\* The instants in from..to
Readings(from, to) == {t \in Instants : from <= t /\ t <= to}

Next ==
    \E rainStatus \in {LOW, HIGH} :
      \E u1 \in Readings(clock, clock + MaxLatency) :
        \E u4 \in Readings(u1, u1 + MaxBodyTime) :
          \E u2 \in Readings(u1, u4) :
            \E u3 \in Readings(u2, u4) :
              loop(rainStatus, u1, u2, u3, u4)

Spec == Init /\ [][Next]_vars

----------------------------------------------------------------------------
\* The same passes with the counter about to wrap: the model starts in the
\* boot state after a dry spell that has brought millis() close to its
\* modulus, so that the wrap falls inside the run, in any state.  The readings
\* given to the reference run stay below ClockModulus, where Elapsed is plain
\* subtraction.
WrapEpochs == {ClockModulus - 3 * Quantum, ClockModulus - 6 * Quantum - 1}
InitWrap == \E e \in WrapEpochs : Boot(e)
SpecWrap == InitWrap /\ [][Next]_vars

----------------------------------------------------------------------------
\* The loop iterating for ever.  The passes read the counter at the multiples
\* of LiveStep, one or two steps after the previous pass, and the counter
\* wraps at ClockModulus as millis() does; loop() is called again as soon as
\* it returns, so a pass that can happen does happen.
LiveStep == ClockModulus \div 16
LiveInstants == {k * LiveStep : k \in 0..15}
LiveLatency == 2 * LiveStep
LiveReadings(from) == {t \in LiveInstants : (t - from) % ClockModulus <= LiveLatency}

NextLive ==
    \E rainStatus \in {LOW, HIGH} :
      \E u \in LiveReadings(clock) :
        loop(rainStatus, u, u, u, u)

SpecLive == Init /\ [][NextLive]_vars /\ WF_vars(NextLive)

----------------------------------------------------------------------------
\* The direction outputs, as the three motor commands leave them
RetractPins ==
    /\ digitalOut[motor1A] = HIGH /\ digitalOut[motor1B] = LOW
    /\ digitalOut[motor2A] = HIGH /\ digitalOut[motor2B] = LOW
ExtendPins ==
    /\ digitalOut[motor1A] = LOW /\ digitalOut[motor1B] = HIGH
    /\ digitalOut[motor2A] = LOW /\ digitalOut[motor2B] = HIGH
StoppedPins == \A p \in DirectionPins : digitalOut[p] = LOW
SomePinHigh == \E p \in DirectionPins : digitalOut[p] = HIGH

\* C1. Pre-emption: a pass that begins in EXTENDING and samples rain ends in
\* RETRACTING with the motors driven in the retract direction, whatever the
\* elapsed extension time (the rain check comes before the completion check).
C1_Preemption ==
    (prevState = EXTENDING /\ rainDetected) =>
        /\ currentState = RETRACTING
        /\ RetractPins
        /\ motorsRunning
        /\ motorCalls = <<"retract">>

\* A pass pre-empted although the extension had already run for motorRunTime
C1_Witness ==
    /\ prevState = EXTENDING
    /\ rainDetected
    /\ sampleTime - prevMotorStartTime >= motorRunTime
    /\ currentState = RETRACTING
    /\ RetractPins

\* C2. At every boundary between passes the motors are driving (motorsRunning
\* and some direction pin HIGH) exactly when currentState is RETRACTING or
\* EXTENDING; in EXTENDED and RETRACTED they are stopped.
C2_MotorsIffDriving ==
    /\ (motorsRunning /\ SomePinHigh) <=> (currentState \in {RETRACTING, EXTENDING})
    /\ (currentState \in {EXTENDED, RETRACTED}) => (~motorsRunning /\ StoppedPins)
    /\ (currentState \in {RETRACTING, EXTENDING}) => (motorsRunning /\ SomePinHigh)

\* The motors stopped at the end of a retraction
C2_Witness ==
    /\ prevState = RETRACTING
    /\ currentState = RETRACTED
    /\ motorCalls = <<"stop">>
    /\ ~motorsRunning
    /\ StoppedPins

\* C3 as stated. Retraction timing with one time per pass: rain sampled in
\* EXTENDED at t0 gives RETRACTING with motorStartTime = t0, RETRACTING is
\* kept by every later pass sampled before t0 + motorRunTime and left for
\* RETRACTED (motors stopped) by the first pass sampled at or after it.
C3_Original ==
    /\ (prevState = EXTENDED /\ rainDetected) =>
           (currentState = RETRACTING /\ motorStartTime = sampleTime)
    /\ (prevState = RETRACTING /\ phaseFrom = EXTENDED) =>
           IF sampleTime < phaseSample + motorRunTime
           THEN currentState = RETRACTING
           ELSE currentState = RETRACTED /\ ~motorsRunning /\ StoppedPins

\* C3, amended. Rain sampled in EXTENDED at t0 gives RETRACTING with
\* lastRainTime = t0 and motorStartTime = t1, a later reading of millis()
\* taken after the motors were started (t0 <= t1); RETRACTING is kept by every
\* later pass whose completion check reads a time < t1 + motorRunTime and left
\* for RETRACTED (motors stopped) by the first pass whose check reads a time
\* >= t1 + motorRunTime, whatever the rain samples meanwhile.
C3_RetractionTiming ==
    /\ (prevState = EXTENDED /\ rainDetected) =>
           /\ currentState = RETRACTING
           /\ RetractPins /\ motorsRunning
           /\ lastRainTime = sampleTime
           /\ motorStartTime = phaseEntry
           /\ sampleTime <= motorStartTime /\ motorStartTime <= ledTime
    /\ (prevState = RETRACTING /\ phaseFrom = EXTENDED) =>
           IF checkTime < phaseEntry + motorRunTime
           THEN currentState = RETRACTING /\ motorsRunning /\ RetractPins
           ELSE currentState = RETRACTED /\ ~motorsRunning /\ StoppedPins

\* A retraction started by rain in EXTENDED, its clock read later than the
\* rain sample, ending exactly motorRunTime after it in a pass that sampled rain
C3_Witness ==
    /\ prevState = RETRACTING
    /\ phaseFrom = EXTENDED
    /\ phaseEntry > phaseSample
    /\ rainDetected
    /\ checkTime = phaseEntry + motorRunTime
    /\ currentState = RETRACTED

\* C4. Re-arming: a pass that goes from RETRACTED to EXTENDING at time t
\* sampled no rain, and no pass sampled rain in (t - retractionDelay, t],
\* in whatever state; while less than retractionDelay has passed since a
\* true sample, a pass that begins in RETRACTED ends in RETRACTED.
C4_Rearming ==
    /\ (prevState = RETRACTED /\ currentState = EXTENDING) =>
           /\ ~rainDetected
           /\ lastTrueSample >= 0
           /\ lastTrueSample + retractionDelay <= sampleTime
           /\ lastTrueSample + retractionDelay <= motorStartTime
    /\ (prevState = RETRACTED /\ lastTrueSample >= 0
            /\ checkTime < lastTrueSample + retractionDelay) =>
           currentState = RETRACTED

\* An extension that began exactly retractionDelay after a rain sample taken
\* while RETRACTED
C4_Witness ==
    /\ prevState = RETRACTED
    /\ currentState = EXTENDING
    /\ lastTrueState = RETRACTED
    /\ sampleTime = lastTrueSample + retractionDelay

\* C5 as stated. Rain pre-empting EXTENDING in the pass sampled at t sets
\* motorStartTime to t, and the RETRACTING phase lasts until the first pass
\* sampled at or after t + motorRunTime.
C5_Original ==
    /\ (prevState = EXTENDING /\ rainDetected) =>
           (currentState = RETRACTING /\ motorStartTime = sampleTime)
    /\ (prevState = RETRACTING /\ phaseFrom = EXTENDING) =>
           IF sampleTime < phaseSample + motorRunTime
           THEN currentState = RETRACTING
           ELSE currentState = RETRACTED

\* C5, amended. Rain pre-empting EXTENDING in the pass sampled at t sets
\* motorStartTime to t1, a later reading of millis() taken after the motors
\* were reversed (t <= t1, and t1 is later than the extension's start), and the
\* RETRACTING phase lasts until the first pass whose completion check reads a
\* time >= t1 + motorRunTime, however long the extension had run.
C5_EmergencyRestart ==
    /\ (prevState = EXTENDING /\ rainDetected) =>
           /\ currentState = RETRACTING
           /\ motorStartTime = phaseEntry
           /\ sampleTime <= motorStartTime /\ motorStartTime <= ledTime
           /\ motorStartTime > prevMotorStartTime
    /\ (prevState = RETRACTING /\ phaseFrom = EXTENDING) =>
           IF checkTime < phaseEntry + motorRunTime
           THEN currentState = RETRACTING /\ motorsRunning /\ RetractPins
           ELSE currentState = RETRACTED /\ ~motorsRunning /\ StoppedPins

\* An emergency retraction ending exactly motorRunTime after the pre-emption
C5_Witness ==
    /\ prevState = RETRACTING
    /\ phaseFrom = EXTENDING
    /\ checkTime = phaseEntry + motorRunTime
    /\ currentState = RETRACTED

\* C6 as stated. A pass in RETRACTED without rain keeps RETRACTED while
\* now - lastRainTime < retractionDelay and otherwise goes to EXTENDING, the
\* extension motors started and motorStartTime = now, the time compared.
C6_Original ==
    (prevState = RETRACTED /\ ~rainDetected) =>
        IF checkTime - lastRainTime >= retractionDelay
        THEN /\ currentState = EXTENDING
             /\ ExtendPins /\ motorsRunning
             /\ motorStartTime = checkTime
        ELSE currentState = RETRACTED /\ ~motorsRunning /\ StoppedPins

\* C6, amended. A pass in RETRACTED without rain keeps RETRACTED while
\* now - lastRainTime < retractionDelay and otherwise (the comparison is
\* inclusive) goes to EXTENDING, the extension motors started and
\* motorStartTime set to a reading of millis() taken after the one compared.
C6_ExtensionTrigger ==
    (prevState = RETRACTED /\ ~rainDetected) =>
        IF checkTime - lastRainTime >= retractionDelay
        THEN /\ currentState = EXTENDING
             /\ ExtendPins /\ motorsRunning
             /\ motorCalls = <<"extend">>
             /\ motorStartTime = phaseEntry
             /\ checkTime <= motorStartTime /\ motorStartTime <= ledTime
        ELSE currentState = RETRACTED /\ ~motorsRunning /\ StoppedPins

\* The extension triggered at 10000 ms with lastRainTime = 0
C6_Witness ==
    /\ prevState = RETRACTED
    /\ ~rainDetected
    /\ lastRainTime = 0
    /\ checkTime = RetractionDelayMs
    /\ currentState = EXTENDING

\* The pass one millisecond earlier, which stays RETRACTED
C6_WitnessBelow ==
    /\ prevState = RETRACTED
    /\ ~rainDetected
    /\ lastRainTime = 0
    /\ checkTime = RetractionDelayMs - 1
    /\ currentState = RETRACTED

\* C7. Idempotence: a pass that leaves currentState unchanged calls no motor
\* function and leaves motorStartTime, motorsRunning and the direction pins
\* unchanged; EXTENDED without rain stays EXTENDED with the motors stopped;
\* the motors are started only by a pass that changes the state into
\* RETRACTING (retract) or EXTENDING (extend), and at most once in a pass.
C7_Idempotence ==
    [][ /\ (currentState' = currentState) =>
               /\ motorCalls' = <<>>
               /\ motorStartTime' = motorStartTime
               /\ motorsRunning' = motorsRunning
               /\ \A p \in DirectionPins : digitalOut'[p] = digitalOut[p]
        /\ (currentState = EXTENDED /\ ~rainDetected') =>
               /\ currentState' = EXTENDED
               /\ ~motorsRunning'
               /\ \A p \in DirectionPins : digitalOut'[p] = LOW
        /\ Len(motorCalls') <= 1
        /\ \A i \in 1..Len(motorCalls') :
               /\ motorCalls'[i] = "retract" =>
                      (currentState' = RETRACTING /\ currentState # RETRACTING)
               /\ motorCalls'[i] = "extend" =>
                      (currentState' = EXTENDING /\ currentState # EXTENDING)
      ]_vars

\* A rainy pass in RETRACTING before completion: nothing is restarted
C7_Witness ==
    /\ prevState = RETRACTING
    /\ currentState = RETRACTING
    /\ rainDetected
    /\ motorCalls = <<>>
    /\ motorStartTime = prevMotorStartTime

\* The transitions of the state machine
AllowedTransitions ==
    {<<EXTENDED, RETRACTING>>, <<RETRACTING, RETRACTED>>, <<RETRACTED, EXTENDING>>,
     <<EXTENDING, RETRACTING>>, <<EXTENDING, EXTENDED>>}

\* C8. A pass assigns currentState at most once, every change of state is one
\* of the five transitions, currentState is always one of the four values and
\* is EXTENDED after setup.
C8_Transitions ==
    /\ currentState \in SystemState
    /\ clock = 0 => currentState = EXTENDED
    /\ stateWrites <= 1
    /\ stateWrites = 1 => <<prevState, currentState>> \in AllowedTransitions
    /\ stateWrites = 0 => currentState = prevState
    /\ currentState # prevState => <<prevState, currentState>> \in AllowedTransitions

\* The end of an emergency retraction: by then four of the five transitions
\* have been taken
C8_Witness ==
    /\ phaseFrom = EXTENDING
    /\ prevState = RETRACTING
    /\ currentState = RETRACTED
    /\ stateWrites = 1

\* C9. lastRainTime is the sampled time of the latest pass that sampled rain
\* (0 if none): a rainy pass sets it to its sampled time in every state, a dry
\* pass and every transition leave it alone, and it never decreases.
C9_LastRainTime ==
    /\ [](lastRainTime = IF lastTrueSample = -1 THEN 0 ELSE lastTrueSample)
    /\ [][ /\ rainDetected' => lastRainTime' = sampleTime'
           /\ ~rainDetected' => lastRainTime' = lastRainTime
           /\ lastRainTime' >= lastRainTime
         ]_vars

\* lastRainTime refreshed by a rainy pass in RETRACTED, after earlier rain
C9_Witness ==
    /\ prevState = RETRACTED
    /\ currentState = RETRACTED
    /\ rainDetected
    /\ lastTrueState = RETRACTED
    /\ lastRainTime = sampleTime
    /\ lastRainTime > prevMotorStartTime + motorRunTime

\* C10. The direction pins are a function of the state: (HIGH, LOW, HIGH, LOW)
\* in RETRACTING, (LOW, HIGH, LOW, HIGH) in EXTENDING, all LOW in EXTENDED and
\* RETRACTED; both motors carry the same command and no motor has both of its
\* pins HIGH.
C10_PinsByState ==
    /\ currentState = RETRACTING => RetractPins
    /\ currentState = EXTENDING => ExtendPins
    /\ currentState \in {EXTENDED, RETRACTED} => StoppedPins
    /\ digitalOut[motor1A] = digitalOut[motor2A]
    /\ digitalOut[motor1B] = digitalOut[motor2B]
    /\ ~(digitalOut[motor1A] = HIGH /\ digitalOut[motor1B] = HIGH)
    /\ ~(digitalOut[motor2A] = HIGH /\ digitalOut[motor2B] = HIGH)

\* The extend polarity on the pins, after the retract polarity and a stop
C10_Witness ==
    /\ prevState = RETRACTED
    /\ currentState = EXTENDING
    /\ ExtendPins

\* What updateStatusLED leaves alone: applied to the memory at any instant,
\* it changes nothing but the level of the status LED pin
RenderChangesOnlyLED ==
    \A t \in Instants :
        LET r == updateStatusLED(Memory, millis(t))
        IN  /\ r.currentState = currentState
            /\ r.lastRainTime = lastRainTime
            /\ r.motorStartTime = motorStartTime
            /\ r.isRetracted = isRetracted
            /\ r.motorsRunning = motorsRunning
            /\ r.analogOut = analogOut
            /\ \A p \in DirectionPins : r.digitalOut[p] = digitalOut[p]
            /\ r.motorCalls = <<>>
            /\ r.stateWrites = 0

\* C11. After setup and after every pass the status LED is a function of the
\* state the pass ended in and of the time updateStatusLED read: HIGH in
\* EXTENDED, LOW in RETRACTED, (now / 200) mod 2 in RETRACTING and EXTENDING;
\* updateStatusLED changes neither currentState nor a timestamp nor a motor
\* output.
C11_StatusLED ==
    /\ currentState = EXTENDED => digitalOut[statusLED] = HIGH
    /\ currentState = RETRACTED => digitalOut[statusLED] = LOW
    /\ currentState \in {RETRACTING, EXTENDING} =>
           digitalOut[statusLED] = (ledTime \div BlinkHalfPeriod) % 2
    /\ RenderChangesOnlyLED

\* The LED lit by the blink of the extension a pass has just started from
\* RETRACTED, where it was off
C11_Witness ==
    /\ prevState = RETRACTED
    /\ currentState = EXTENDING
    /\ (ledTime \div BlinkHalfPeriod) % 2 = 1
    /\ digitalOut[statusLED] = HIGH

\* The last pass took one of the three transitions that start the motors
EnteredDriving ==
    /\ stateWrites = 1
    /\ <<prevState, currentState>> \in
           {<<EXTENDED, RETRACTING>>, <<RETRACTED, EXTENDING>>, <<EXTENDING, RETRACTING>>}

\* C12. A pass that enters RETRACTING or EXTENDING sets motorStartTime to a
\* reading of millis() it takes at the assignment; every other pass, the two
\* stopping transitions included, leaves motorStartTime unchanged; so in
\* RETRACTING and EXTENDING motorStartTime is the time the state was entered.
C12_MotorStartTime ==
    /\ EnteredDriving =>
           /\ motorStartTime = phaseEntry
           /\ sampleTime <= motorStartTime /\ motorStartTime <= ledTime
    /\ (clock > 0 /\ ~EnteredDriving) => motorStartTime = prevMotorStartTime
    /\ currentState \in {RETRACTING, EXTENDING} =>
           (motorStartTime = phaseEntry /\ phaseFrom # currentState)
    /\ (currentState # prevState /\ currentState \in {RETRACTING, EXTENDING}) =>
           EnteredDriving

\* The end of an extension: the motors stop and motorStartTime keeps the time
\* the extension began
C12_Witness ==
    /\ prevState = EXTENDING
    /\ currentState = EXTENDED
    /\ stateWrites = 1
    /\ motorStartTime = prevMotorStartTime
    /\ motorStartTime = phaseEntry
    /\ checkTime >= motorStartTime + motorRunTime

\* C13. Extension completion: a pass that begins in EXTENDING ends in EXTENDED
\* (motors stopped) exactly when it samples no rain and reads a time with
\* now - motorStartTime >= motorRunTime; so EXTENDED is entered only from
\* EXTENDING, never in a pass that sampled rain and never less than
\* motorRunTime after the extension began.
C13_ExtensionCompletion ==
    /\ prevState = EXTENDING =>
           /\ currentState = EXTENDED <=>
                  (~rainDetected /\ sampleTime - prevMotorStartTime >= motorRunTime)
           /\ currentState = EXTENDED =>
                  (~motorsRunning /\ StoppedPins /\ motorCalls = <<"stop">>)
           /\ (~rainDetected /\ sampleTime - prevMotorStartTime < motorRunTime) =>
                  (currentState = EXTENDING /\ motorsRunning /\ ExtendPins)
    /\ (currentState = EXTENDED /\ stateWrites = 1) =>
           /\ prevState = EXTENDING
           /\ phaseFrom = RETRACTED
           /\ ~rainDetected
           /\ checkTime >= phaseEntry + motorRunTime

\* An extension completed exactly motorRunTime after it began
C13_Witness ==
    /\ prevState = EXTENDING
    /\ currentState = EXTENDED
    /\ ~rainDetected
    /\ checkTime = phaseEntry + motorRunTime
    /\ ~motorsRunning

\* C14. A single dry sample between rainy ones: a dry pass that follows a rainy
\* pass by less than retractionDelay starts no extension and ends in neither
\* EXTENDING nor EXTENDED; and a dry sample in EXTENDED changes nothing (the
\* line stays out, motors stopped), the retraction starting in the first pass
\* that samples rain.
C14_SensorGlitch ==
    [][ /\ (rainDetected /\ ~rainDetected'
                /\ checkTime' - sampleTime < retractionDelay) =>
               /\ currentState' \in {RETRACTING, RETRACTED}
               /\ \A i \in 1..Len(motorCalls') : motorCalls'[i] # "extend"
        /\ (currentState = EXTENDED /\ ~rainDetected') =>
               /\ currentState' = EXTENDED
               /\ motorCalls' = <<>>
               /\ UNCHANGED <<lastRainTime, motorStartTime, isRetracted,
                              motorsRunning, digitalOut, analogOut>>
        /\ (currentState = EXTENDED /\ rainDetected') =>
               (currentState' = RETRACTING /\ motorCalls' = <<"retract">>)
      ]_vars

\* A dry pass in RETRACTED one loop delay after a rainy one: nothing starts
C14_Witness ==
    /\ prevState = RETRACTED
    /\ lastTrueState = RETRACTED
    /\ ~rainDetected
    /\ checkTime - lastTrueSample = LoopDelay
    /\ currentState = RETRACTED
    /\ motorCalls = <<>>

\* C16. Rain safety: every pass that sampled rain ends with currentState
\* RETRACTING or RETRACTED, has made no startExtensionMotors call, and leaves
\* both extend-side direction pins LOW.
C16_RainSafety ==
    rainDetected =>
        /\ currentState \in {RETRACTING, RETRACTED}
        /\ \A i \in 1..Len(motorCalls) : motorCalls[i] # "extend"
        /\ digitalOut[motor1B] = LOW /\ digitalOut[motor2B] = LOW

\* A rainy pass with the line already in: it stays in, motors stopped
C16_Witness ==
    /\ rainDetected
    /\ prevState = RETRACTED
    /\ currentState = RETRACTED
    /\ motorCalls = <<>>
    /\ StoppedPins

\* C18. isRetracted: between passes RETRACTED implies isRetracted and EXTENDED
\* implies ~isRetracted; a pass changes the flag only on EXTENDED->RETRACTING
\* (to FALSE), RETRACTING->RETRACTED (to TRUE) or EXTENDING->EXTENDED (to
\* FALSE), and RETRACTED->EXTENDING and EXTENDING->RETRACTING leave it alone.
C18_IsRetracted ==
    /\ [](/\ currentState = RETRACTED => isRetracted
          /\ currentState = EXTENDED => ~isRetracted)
    /\ [][ /\ isRetracted' # isRetracted =>
                  \/ currentState = RETRACTING /\ currentState' = RETRACTED
                  \/ currentState = EXTENDING /\ currentState' = EXTENDED
           /\ (currentState = EXTENDED /\ currentState' = RETRACTING) =>
                  ~isRetracted'
           /\ (currentState = RETRACTING /\ currentState' = RETRACTED) =>
                  isRetracted'
           /\ (currentState = EXTENDING /\ currentState' = EXTENDED) =>
                  ~isRetracted'
           /\ (currentState = RETRACTED /\ currentState' = EXTENDING) =>
                  isRetracted' = isRetracted
           /\ (currentState = EXTENDING /\ currentState' = RETRACTING) =>
                  isRetracted' = isRetracted
         ]_vars

\* The emergency retraction under way with the flag still set
C18_Witness ==
    /\ prevState = EXTENDING
    /\ currentState = RETRACTING
    /\ stateWrites = 1
    /\ isRetracted

\* C19. Both PWM duties hold the value setup() wrote (150) and retractionDelay
\* and motorRunTime hold their initial values at every boundary between
\* passes; none of the three motor actions writes a duty or either duration.
C19_FixedDuties ==
    /\ analogOut = [p \in PwmPins |-> MotorSpeed]
    /\ setup(PowerOn).analogOut = [p \in PwmPins |-> MotorSpeed]
    /\ retractionDelay = RetractionDelayMs
    /\ motorRunTime = MotorRunTimeMs
    /\ \A m \in {startRetractionMotors(Memory), startExtensionMotors(Memory),
                 stopMotors(Memory)} :
           /\ m.analogOut = analogOut
           /\ m.retractionDelay = retractionDelay
           /\ m.motorRunTime = motorRunTime

\* A whole cycle of motor actions done, duties as setup() left them
C19_Witness ==
    /\ prevState = EXTENDING
    /\ currentState = EXTENDED
    /\ phaseFrom = RETRACTED
    /\ motorCalls = <<"stop">>
    /\ analogOut[motor1Enable] = MotorSpeed
    /\ analogOut[motor2Enable] = MotorSpeed

\* C17. Clock wrap-around: with the polling period plus the longer of
\* motorRunTime and retractionDelay below the clock's modulus, the sketch on
\* the wrapping counter is, after every pass, in the same state, has made the
\* same motor calls and drives the same direction pins as the sketch given the
\* same samples on a clock that never wraps, and its two timestamps are the
\* reference's reduced modulo 2^w.
C17_WrapAround ==
    (MaxLatency + MaxBodyTime + LoopDelay
        + (IF motorRunTime > retractionDelay THEN motorRunTime ELSE retractionDelay)
        < ClockModulus) =>
        /\ currentState = unbounded.currentState
        /\ motorCalls = unbounded.motorCalls
        /\ motorsRunning = unbounded.motorsRunning
        /\ isRetracted = unbounded.isRetracted
        /\ \A p \in DirectionPins : digitalOut[p] = unbounded.digitalOut[p]
        /\ lastTrueSample # -1 =>
               /\ lastRainTime = millis(unbounded.lastRainTime)
               /\ motorStartTime = millis(unbounded.motorStartTime)

\* The dry period measured across the wrap: the extension starts on a reading
\* numerically below lastRainTime
C17_Witness ==
    /\ prevState = RETRACTED
    /\ currentState = EXTENDING
    /\ checkTime < lastRainTime
    /\ Elapsed(checkTime, lastRainTime) >= retractionDelay
    /\ unbounded.currentState = EXTENDING

\* C15. Liveness, the loop iterating for ever on an advancing clock: RETRACTING
\* always leads to RETRACTED, EXTENDING always leads to EXTENDED or
\* RETRACTING, and if the rain samples are false from some pass on, then from
\* some pass on the state is EXTENDED with the motors stopped.
C15_Liveness ==
    /\ (currentState = RETRACTING) ~> (currentState = RETRACTED)
    /\ (currentState = EXTENDING) ~> (currentState \in {EXTENDED, RETRACTING})
    /\ <>[](~rainDetected) =>
           <>[](currentState = EXTENDED /\ ~motorsRunning /\ StoppedPins)

\* Back in EXTENDED after rain, a retraction, the dry wait and the extension
C15_Witness ==
    /\ lastTrueSample # -1
    /\ phaseFrom = RETRACTED
    /\ prevState = EXTENDED
    /\ currentState = EXTENDED
    /\ ~rainDetected
    /\ ~motorsRunning
    /\ StoppedPins

====
